---- MODULE Spec2Model ----
(***************************************************************************)
(* Model of src/app.py: a Streamlit dashboard over an SQLite file with two *)
(* tables, invernaderos (greenhouses) and registros (readings).            *)
(*                                                                         *)
(* Three specifications share the data-access layer modelled below:        *)
(*   SpecDb     the helper functions of lines 37-104 called directly with  *)
(*              Python int / str arguments;                                *)
(*   SpecVista  the main area (Visualizacion, Historico) over tables       *)
(*              filled through the helper functions;                       *)
(*   Spec       the Streamlit script: one action per button / form of the  *)
(*              page, each reading inv_df first (line 167) and passing the *)
(*              greenhouse id it looks up in that dataframe.               *)
(*                                                                         *)
(* Values bound to SQL parameters keep their Python type: the sqlite3      *)
(* module binds int as INTEGER and any other object that exports the       *)
(* buffer protocol as BLOB.  `df[...]['id'].values[0]` is a numpy.int64,   *)
(* which is not an int and exports its 8 bytes as a buffer.                *)
(***************************************************************************)
EXTENDS Integers, Sequences, FiniteSets, TLC

VARIABLES
    invernaderos,   \* table invernaderos: set of [id, nombre]
    registros,      \* table registros: set of rows
    seq_inv,        \* sqlite_sequence row of invernaderos (AUTOINCREMENT)
    seq_reg,        \* sqlite_sequence row of registros (AUTOINCREMENT)
    ret,            \* value returned by the last helper call
    call,           \* the last helper call and its arguments
    pre_inv,        \* table invernaderos before the last step
    pre_reg,        \* table registros before the last step
    live,           \* readings handed to add_registro and not deleted since
    msg,            \* message the page showed in the last script run
    vista           \* what the last script run rendered in the main area

vars == <<invernaderos, registros, seq_inv, seq_reg, ret, call,
          pre_inv, pre_reg, live, msg, vista>>

----------------------------------------------------------------------------
(* Bounds *)

MaxInv == 2      \* greenhouses ever inserted
MaxReg == 2      \* readings ever inserted

----------------------------------------------------------------------------
(* Python values and their SQL binding *)

PyInt(n) == [py |-> "int", v |-> n]
NpInt64(n) == [py |-> "numpy.int64", v |-> n]
PyNone == [py |-> "None", v |-> 0]

SqlInt(n) == [t |-> "INTEGER", v |-> n]
SqlBlob(n) == [t |-> "BLOB", v |-> n]

\* sqlite3 parameter binding of a Python object
bind(x) ==
    IF x.py = "int" THEN SqlInt(x.v)
    ELSE IF x.py = "None" THEN [t |-> "NULL", v |-> 0]
    ELSE SqlBlob(x.v)

\* `col = ?` on an INTEGER column holding the integer n
EqInt(n, b) == b.t = "INTEGER" /\ b.v = n

\* Python truthiness of an argument (`if inv_id:`)
Truthy(x) == x.py # "None" /\ x.v # 0

----------------------------------------------------------------------------
(* Inputs *)

Nombres == {"a", "b"}
Textos == Nombres \cup {""}          \* what a text_input can hold

\* datetime.combine(fecha, hora) of the form, to the hour
Fecha(y, m, d, h) == [year |-> y, month |-> m, day |-> d, hour |-> h]

\* values of one submitted registro_form
Lectura(f, tmax, tmin, hmax, hmin, c) ==
    [fecha |-> f, temp_max |-> tmax, temp_min |-> tmin,
     hum_max |-> hmax, hum_min |-> hmin, co2 |-> c]

Lecturas ==
    { Lectura(Fecha(2024, 1, 5, 8), 20, 10, 90, 70, 400),
      Lectura(Fecha(2024, 1, 5, 20), 30, 20, 80, 60, 600),
      Lectura(Fecha(2025, 2, 1, 8), 25, 18, 85, 65, 500) }

NoLectura == Lectura(Fecha(0, 0, 0, 0), 0, 0, 0, 0, 0)

\* strftime("%Y-%m-%d %H:%M:%S"): fixed-width fields, most significant first
strftime(f) == <<f.year, f.month, f.day, f.hour>>

\* pd.to_datetime of a stored fecha string
to_datetime(s) == Fecha(s[1], s[2], s[3], s[4])

\* TEXT comparison of two stored fecha strings (s > t)
FechaGt(s, t) ==
    \E k \in 1..4 : /\ s[k] > t[k]
                    /\ \A j \in 1..(k - 1) : s[j] = t[j]

----------------------------------------------------------------------------
(* Data-access layer, lines 37-104 *)

\* variant: the id is COUNT(*) + 1 and the insert is INSERT OR REPLACE
add_invernadero_count(nombre) ==
    /\ IF \E i \in invernaderos : i.nombre = nombre
       THEN /\ ret' = "False"
            /\ UNCHANGED invernaderos
       ELSE LET n == Cardinality(invernaderos) + 1
            IN  /\ invernaderos' = {i \in invernaderos : i.id # n}
                                       \cup {[id |-> n, nombre |-> nombre]}
                /\ ret' = "True"
    /\ seq_inv' = seq_inv
    /\ UNCHANGED <<registros, seq_reg>>

\* INSERT INTO invernaderos (nombre): UNIQUE(nombre), AUTOINCREMENT id
add_invernadero(nombre) ==
    /\ IF \E i \in invernaderos : i.nombre = nombre
       THEN /\ ret' = "False"
            /\ UNCHANGED <<invernaderos, seq_inv>>
       ELSE /\ invernaderos' =
                  invernaderos \cup {[id |-> seq_inv + 1, nombre |-> nombre]}
            /\ seq_inv' = seq_inv + 1
            /\ ret' = "True"
    /\ UNCHANGED <<registros, seq_reg>>

\* variant: the renamed greenhouse is inserted anew and its readings are
\* pointed to the new row
rename_invernadero_reinsert(id, nuevo_nombre) ==
    LET hit == {i \in invernaderos : EqInt(i.id, bind(id))}
        rest == invernaderos \ hit
    IN  IF hit # {} /\ \E i \in rest : i.nombre = nuevo_nombre
        THEN /\ ret' = "False"
             /\ UNCHANGED <<invernaderos, registros, seq_inv, seq_reg>>
        ELSE IF hit = {}
        THEN /\ ret' = "True"
             /\ UNCHANGED <<invernaderos, registros, seq_inv, seq_reg>>
        ELSE /\ invernaderos' =
                   rest \cup {[id |-> seq_inv + 1, nombre |-> nuevo_nombre]}
             /\ registros' =
                   {IF \E i \in hit : r.invernadero_id = SqlInt(i.id)
                    THEN [r EXCEPT !.invernadero_id = SqlInt(seq_inv + 1)]
                    ELSE r : r \in registros}
             /\ seq_inv' = seq_inv + 1
             /\ ret' = "True"
             /\ UNCHANGED seq_reg

\* UPDATE invernaderos SET nombre = ? WHERE id = ?
rename_invernadero(id, nuevo_nombre) ==
    LET hit == {i \in invernaderos : EqInt(i.id, bind(id))}
        rest == invernaderos \ hit
    IN  /\ IF hit # {} /\ \E i \in rest : i.nombre = nuevo_nombre
           THEN /\ ret' = "False"
                /\ UNCHANGED invernaderos
           ELSE /\ invernaderos' =
                      rest \cup {[id |-> i.id, nombre |-> nuevo_nombre] : i \in hit}
                /\ ret' = "True"
        /\ UNCHANGED <<registros, seq_inv, seq_reg>>

\* PRAGMA foreign_keys = ON; DELETE FROM invernaderos WHERE id = ?
\* (registros.invernadero_id REFERENCES invernaderos(id) ON DELETE CASCADE)
delete_invernadero(id) ==
    LET hit == {i \in invernaderos : EqInt(i.id, bind(id))}
    IN  /\ invernaderos' = invernaderos \ hit
        /\ registros' =
              {r \in registros :
                  ~ \E i \in hit : r.invernadero_id = SqlInt(i.id)}
        /\ ret' = "None"
        /\ UNCHANGED <<seq_inv, seq_reg>>

\* SELECT * FROM invernaderos
get_invernaderos == invernaderos

\* INSERT INTO registros (...): no PRAGMA on this connection, so the
\* foreign key is not enforced; INTEGER affinity leaves a BLOB as it is
add_registro(inv_id, fecha, t_max, t_min, h_max, h_min, co2) ==
    /\ registros' = registros \cup
          {[id |-> seq_reg + 1, invernadero_id |-> bind(inv_id),
            fecha |-> fecha, temp_max |-> t_max, temp_min |-> t_min,
            hum_max |-> h_max, hum_min |-> h_min, co2 |-> co2]}
    /\ seq_reg' = seq_reg + 1
    /\ ret' = "None"
    /\ UNCHANGED <<invernaderos, seq_inv>>

\* variant: the WHERE names the column invernadero_id
delete_registro_by_owner(reg_id) ==
    /\ registros' = {r \in registros : r.invernadero_id # bind(reg_id)}
    /\ ret' = "None"
    /\ UNCHANGED <<invernaderos, seq_inv, seq_reg>>

\* DELETE FROM registros WHERE id = ?
delete_registro(reg_id) ==
    /\ registros' = {r \in registros : ~ EqInt(r.id, bind(reg_id))}
    /\ ret' = "None"
    /\ UNCHANGED <<invernaderos, seq_inv, seq_reg>>

\* one row of the SELECT of get_registros, fecha parsed (line 96)
Fila(r, i) ==
    [id |-> r.id, Invernadero |-> i.nombre, fecha |-> to_datetime(r.fecha),
     temp_max |-> r.temp_max, temp_min |-> r.temp_min,
     hum_max |-> r.hum_max, hum_min |-> r.hum_min, co2 |-> r.co2]

\* registros r JOIN invernaderos i ON r.invernadero_id = i.id [WHERE ...]
JoinRows(inv_id) ==
    {p \in registros \X invernaderos :
        /\ p[1].invernadero_id = SqlInt(p[2].id)
        /\ Truthy(inv_id) => p[1].invernadero_id = bind(inv_id)}

\* every order of the pairs P that ORDER BY r.fecha DESC allows
RECURSIVE OrderByFechaDesc(_)
OrderByFechaDesc(P) ==
    IF P = {} THEN {<<>>}
    ELSE UNION { {<<Fila(p[1], p[2])>> \o s : s \in OrderByFechaDesc(P \ {p})} :
                 p \in {q \in P : \A o \in P : ~ FechaGt(o[1].fecha, q[1].fecha)} }

\* the dataframes get_registros(inv_id) can return
get_registros(inv_id) == OrderByFechaDesc(JoinRows(inv_id))

----------------------------------------------------------------------------
(* Filters and daily aggregation, lines 241-276 *)

Range(s) == {s[k] : k \in DOMAIN s}

months_names ==
    <<"Enero", "Febrero", "Marzo", "Abril", "Mayo", "Junio",
      "Julio", "Agosto", "Septiembre", "Octubre", "Noviembre", "Diciembre">>

\* months_names.index(month_sel) + 1
month_index(month_sel) ==
    CHOOSE k \in DOMAIN months_names : months_names[k] = month_sel

\* str(y) of the years the form inputs use, and int(year_sel) back
str(y) == IF y = 2024 THEN "2024" ELSE IF y = 2025 THEN "2025" ELSE "0"
int(t) == IF t = "2024" THEN 2024 ELSE IF t = "2025" THEN 2025 ELSE 0

\* options of the three selectboxes of the sidebar
YearOptions(all_regs) ==
    {"Ver todo"} \cup {str(r.fecha.year) : r \in Range(all_regs)}
MonthOptions == {"Ver todo"} \cup Range(months_names)
InvOptions(inv_df) == {"Todos"} \cup {i.nombre : i \in inv_df}

\* the months the model selects (a month without readings filters all out)
MesesMuestra == {"Ver todo", "Enero"}

\* variant: month_idx without the + 1
filtered_month0(all_regs, year_sel, month_sel, inv_filter_sel) ==
    LET f1 == IF year_sel # "Ver todo"
              THEN SelectSeq(all_regs, LAMBDA r : r.fecha.year = int(year_sel))
              ELSE all_regs
        f2 == IF month_sel # "Ver todo"
              THEN SelectSeq(f1, LAMBDA r :
                                r.fecha.month = month_index(month_sel) - 1)
              ELSE f1
        f3 == IF inv_filter_sel # "Todos"
              THEN SelectSeq(f2, LAMBDA r : r.Invernadero = inv_filter_sel)
              ELSE f2
    IN  f3

\* filtered_df of lines 254-261
filtered(all_regs, year_sel, month_sel, inv_filter_sel) ==
    LET f1 == IF year_sel # "Ver todo"
              THEN SelectSeq(all_regs, LAMBDA r : r.fecha.year = int(year_sel))
              ELSE all_regs
        f2 == IF month_sel # "Ver todo"
              THEN SelectSeq(f1, LAMBDA r : r.fecha.month = month_index(month_sel))
              ELSE f1
        f3 == IF inv_filter_sel # "Todos"
              THEN SelectSeq(f2, LAMBDA r : r.Invernadero = inv_filter_sel)
              ELSE f2
    IN  f3

\* df['fecha'].dt.date
fecha_dia(r) == <<r.fecha.year, r.fecha.month, r.fecha.day>>

DiaLt(a, b) ==
    \E k \in 1..3 : a[k] < b[k] /\ \A j \in 1..(k - 1) : a[j] = b[j]

Max(S) == CHOOSE x \in S : \A y \in S : y <= x
Min(S) == CHOOSE x \in S : \A y \in S : x <= y

RECURSIVE SumSeq(_)
SumSeq(s) == IF s = <<>> THEN 0 ELSE Head(s) + SumSeq(Tail(s))

\* variant: 'temp_min': 'max'
agg_min_as_max(dia, g) ==
    [fecha_dia |-> dia,
     temp_max |-> Max({g[k].temp_max : k \in DOMAIN g}),
     temp_min |-> Max({g[k].temp_min : k \in DOMAIN g}),
     hum_max |-> Max({g[k].hum_max : k \in DOMAIN g}),
     hum_min |-> Min({g[k].hum_min : k \in DOMAIN g}),
     co2 |-> [sum |-> SumSeq([k \in DOMAIN g |-> g[k].co2]), count |-> Len(g)]]

\* the aggregation of the rows g of one day; co2 is the mean sum / count
agg(dia, g) ==
    [fecha_dia |-> dia,
     temp_max |-> Max({g[k].temp_max : k \in DOMAIN g}),
     temp_min |-> Min({g[k].temp_min : k \in DOMAIN g}),
     hum_max |-> Max({g[k].hum_max : k \in DOMAIN g}),
     hum_min |-> Min({g[k].hum_min : k \in DOMAIN g}),
     co2 |-> [sum |-> SumSeq([k \in DOMAIN g |-> g[k].co2]), count |-> Len(g)]]

\* groupby('fecha_dia').agg(...).reset_index().sort_values('fecha_dia')
RECURSIVE grouped_days(_, _)
grouped_days(df, dias) ==
    IF dias = {} THEN <<>>
    ELSE LET d == CHOOSE x \in dias : \A y \in dias : ~ DiaLt(y, x)
         IN  <<agg(d, SelectSeq(df, LAMBDA r : fecha_dia(r) = d))>>
                 \o grouped_days(df, dias \ {d})

df_grouped(filtered_df) ==
    grouped_days(filtered_df, {fecha_dia(r) : r \in Range(filtered_df)})

----------------------------------------------------------------------------
(* Bookkeeping shared by every step *)

Call(fn, id, nombre, lectura) ==
    [fn |-> fn, id |-> id, nombre |-> nombre, lectura |-> lectura]

NoCall == Call("none", PyNone, "", NoLectura)

\* the widgets of the last run and what the main area showed;
\* reg_id_to_del is 0 unless "Eliminar Registro" was pressed
Vista(choice, year_sel, month_sel, inv_filter_sel, reg_id_to_del, all_regs, filtered_df, daily) ==
    [choice |-> choice, year_sel |-> year_sel, month_sel |-> month_sel,
     inv_filter_sel |-> inv_filter_sel, reg_id_to_del |-> reg_id_to_del,
     all_regs |-> all_regs, filtered_df |-> filtered_df, df_grouped |-> daily]

\* the menu on its first option, the filters not drawn
NoVista ==
    Vista("Registro de Datos", "Ver todo", "Ver todo", "Todos", 0,
          <<>>, <<>>, <<>>)

\* the tables as they were when the step began
Before == pre_inv' = invernaderos /\ pre_reg' = registros

\* a reading as handed to add_registro, with the id the insert gives it
Handed(inv_id, l) ==
    [id |-> seq_reg + 1, inv_id |-> inv_id, lectura |-> l]

Init ==
    /\ invernaderos = {}
    /\ registros = {}
    /\ seq_inv = 0
    /\ seq_reg = 0
    /\ ret = "None"
    /\ call = NoCall
    /\ pre_inv = {}
    /\ pre_reg = {}
    /\ live = {}
    /\ msg = ""
    /\ vista = NoVista

----------------------------------------------------------------------------
(* SpecDb: the helper functions called directly *)

IdArgs == {PyInt(n) : n \in 1..MaxInv}
RegIdArgs == {PyInt(n) : n \in 1..MaxReg}

DbAddInvernadero(nombre) ==
    /\ seq_inv < MaxInv \/ \E i \in invernaderos : i.nombre = nombre
    /\ add_invernadero(nombre)
    /\ call' = Call("add_invernadero", PyNone, nombre, NoLectura)
    /\ Before
    /\ msg' = "" /\ vista' = NoVista
    /\ UNCHANGED live

DbRenameInvernadero(id, nuevo_nombre) ==
    /\ rename_invernadero(id, nuevo_nombre)
    /\ call' = Call("rename_invernadero", id, nuevo_nombre, NoLectura)
    /\ Before
    /\ msg' = "" /\ vista' = NoVista
    /\ UNCHANGED live

DbDeleteInvernadero(id) ==
    /\ delete_invernadero(id)
    /\ call' = Call("delete_invernadero", id, "", NoLectura)
    /\ Before
    /\ live' = IF \E i \in invernaderos : i.id = id.v
               THEN {l \in live : l.inv_id.v # id.v}
               ELSE live
    /\ msg' = "" /\ vista' = NoVista

DbAddRegistro(inv_id, l) ==
    /\ seq_reg < MaxReg
    /\ add_registro(inv_id, strftime(l.fecha), l.temp_max, l.temp_min,
                    l.hum_max, l.hum_min, l.co2)
    /\ call' = Call("add_registro", inv_id, "", l)
    /\ Before
    /\ live' = live \cup {Handed(inv_id, l)}
    /\ msg' = "" /\ vista' = NoVista

DbDeleteRegistro(reg_id) ==
    /\ delete_registro(reg_id)
    /\ call' = Call("delete_registro", reg_id, "", NoLectura)
    /\ Before
    /\ live' = {l \in live : l.id # reg_id.v}
    /\ msg' = "" /\ vista' = NoVista

----------------------------------------------------------------------------
(* The main area of the page, lines 238-332 *)

\* A run is triggered by one widget: the values of the other widgets are
\* those of the previous run (a selection that is no longer an option
\* falls back to the first option).
Keep(sel, options, first) == IF sel \in options THEN sel ELSE first

Selecciones(choice, all_regs) ==
    LET y == Keep(vista.year_sel, YearOptions(all_regs), "Ver todo")
        m == Keep(vista.month_sel, MonthOptions, "Ver todo")
        i == Keep(vista.inv_filter_sel, InvOptions(get_invernaderos), "Todos")
    IN  IF all_regs = <<>> THEN {<<"Ver todo", "Ver todo", "Todos">>}
        ELSE IF choice # vista.choice THEN {<<y, m, i>>}
        ELSE {<<y2, m, i>> : y2 \in YearOptions(all_regs)}
             \cup {<<y, m2, i>> : m2 \in MonthOptions \cap MesesMuestra}
             \cup {<<y, m, i2>> : i2 \in InvOptions(get_invernaderos)}

\* "Visualizacion y Reportes": filters, then the daily table of the charts
Visualizacion ==
    /\ \E all_regs \in get_registros(PyNone) :
        \E sel \in Selecciones("Visualizacion y Reportes", all_regs) :
          LET filtered_df ==
                  IF all_regs = <<>> THEN all_regs
                  ELSE filtered(all_regs, sel[1], sel[2], sel[3])
          IN  /\ vista' = Vista("Visualizacion y Reportes", sel[1], sel[2],
                                sel[3], 0, all_regs, filtered_df,
                                IF filtered_df = <<>> THEN <<>>
                                ELSE df_grouped(filtered_df))
              /\ msg' = IF filtered_df = <<>>
                        THEN "No hay datos con los filtros seleccionados."
                        ELSE ""
    /\ ret' = "None" /\ call' = NoCall
    /\ Before
    /\ UNCHANGED <<invernaderos, registros, seq_inv, seq_reg, live>>

\* variant: the id is not looked up
id_known_always(reg_id_to_del, all_regs) == TRUE

\* reg_id_to_del in all_regs['id'].values
id_known(reg_id_to_del, all_regs) ==
    reg_id_to_del \in {all_regs[k].id : k \in DOMAIN all_regs}

\* "Historico": the table of filtered_df and, under it, the number_input
\* and the button "Eliminar Registro".  The button can be pressed only if
\* the previous run drew it; reg_id_to_del is the int of the number_input
\* (min_value=1).  After a delete st.rerun() draws the page again, which is
\* the next Historico step.
Historico(pressed, reg_id_to_del) ==
    /\ pressed => vista.choice = "Historico" /\ vista.filtered_df # <<>>
    /\ \E all_regs \in get_registros(PyNone) :
        \E sel \in IF pressed
                   THEN {<<vista.year_sel, vista.month_sel, vista.inv_filter_sel>>}
                   ELSE Selecciones("Historico", all_regs) :
          LET filtered_df ==
                  IF all_regs = <<>> THEN all_regs
                  ELSE filtered(all_regs, sel[1], sel[2], sel[3])
          IN  /\ vista' = Vista("Historico", sel[1], sel[2], sel[3],
                                IF pressed /\ filtered_df # <<>>
                                THEN reg_id_to_del ELSE 0,
                                all_regs, filtered_df, <<>>)
              /\ Before
              /\ IF filtered_df = <<>>
                 THEN /\ msg' = "No hay registros para mostrar."
                      /\ ret' = "None" /\ call' = NoCall
                      /\ UNCHANGED <<invernaderos, registros, seq_inv,
                                     seq_reg, live>>
                 ELSE IF ~ pressed
                 THEN /\ msg' = ""
                      /\ ret' = "None" /\ call' = NoCall
                      /\ UNCHANGED <<invernaderos, registros, seq_inv,
                                     seq_reg, live>>
                 ELSE IF id_known(reg_id_to_del, all_regs)
                 THEN /\ delete_registro(PyInt(reg_id_to_del))
                      /\ call' = Call("delete_registro", PyInt(reg_id_to_del),
                                      "", NoLectura)
                      /\ live' = {l \in live : l.id # reg_id_to_del}
                      /\ msg' = "Registro eliminado."
                 ELSE /\ msg' = "ID no encontrado."
                      /\ ret' = "None" /\ call' = NoCall
                      /\ UNCHANGED <<invernaderos, registros, seq_inv,
                                     seq_reg, live>>

NextDb ==
    \/ \E nombre \in Nombres : DbAddInvernadero(nombre)
    \/ \E id \in IdArgs, nombre \in Nombres : DbRenameInvernadero(id, nombre)
    \/ \E id \in IdArgs : DbDeleteInvernadero(id)
    \/ \E inv_id \in IdArgs, l \in Lecturas : DbAddRegistro(inv_id, l)
    \/ \E reg_id \in RegIdArgs : DbDeleteRegistro(reg_id)

SpecDb == Init /\ [][NextDb]_vars

Press == {<<FALSE, 1>>} \cup {<<TRUE, n>> : n \in 1..(MaxReg + 1)}

NextVista ==
    \/ \E nombre \in Nombres : DbAddInvernadero(nombre)
    \/ \E i \in invernaderos, l \in Lecturas : DbAddRegistro(PyInt(i.id), l)
    \/ Visualizacion
    \/ \E p \in Press : Historico(p[1], p[2])

SpecVista == Init /\ [][NextVista]_vars

----------------------------------------------------------------------------
(* Spec: the Streamlit script, lines 160-236.  Every interaction runs the   *)
(* script from the top: inv_df is read (line 167), then the one widget     *)
(* that triggered the run acts.                                            *)

\* inv_df[inv_df['nombre'] == nombre]['id'].values[0]
values0(inv_df, nombre) ==
    NpInt64((CHOOSE i \in inv_df : i.nombre = nombre).id)

\* sidebar, "Anadir Invernadero"
Anadir(nuevo_inv) ==
    /\ seq_inv < MaxInv \/ nuevo_inv = ""
          \/ \E i \in invernaderos : i.nombre = nuevo_inv
    /\ IF nuevo_inv # ""
       THEN /\ add_invernadero(nuevo_inv)
            /\ call' = Call("add_invernadero", PyNone, nuevo_inv, NoLectura)
            /\ msg' = IF ret' = "True" THEN "Anadido"
                      ELSE "Ya existe o error."
       ELSE /\ msg' = "Escribe un nombre."
            /\ ret' = "None" /\ call' = NoCall
            /\ UNCHANGED <<invernaderos, registros, seq_inv, seq_reg>>
    /\ Before
    /\ vista' = NoVista
    /\ UNCHANGED live

\* sidebar, "Editar/Borrar Invernadero": button "Renombrar"
Renombrar(inv_to_edit, nuevo_nombre) ==
    LET inv_df == get_invernaderos
    IN  /\ inv_df # {}
        /\ inv_to_edit \in {i.nombre : i \in inv_df}
        /\ LET inv_id_to_edit == values0(inv_df, inv_to_edit)
           IN  /\ rename_invernadero(inv_id_to_edit, nuevo_nombre)
               /\ call' = Call("rename_invernadero", inv_id_to_edit,
                               nuevo_nombre, NoLectura)
        /\ msg' = IF ret' = "True" THEN "Renombrado" ELSE "Error al renombrar"
        /\ Before
        /\ vista' = NoVista
        /\ UNCHANGED live

\* sidebar, "Editar/Borrar Invernadero": button "Eliminar Invernadero"
EliminarInvernadero(inv_to_edit) ==
    LET inv_df == get_invernaderos
    IN  /\ inv_df # {}
        /\ inv_to_edit \in {i.nombre : i \in inv_df}
        /\ LET inv_id_to_edit == values0(inv_df, inv_to_edit)
           IN  /\ delete_invernadero(inv_id_to_edit)
               /\ call' = Call("delete_invernadero", inv_id_to_edit, "",
                               NoLectura)
               /\ live' = {l \in live : l.inv_id.v # inv_id_to_edit.v}
        /\ msg' = "Eliminado"
        /\ Before
        /\ vista' = NoVista

\* "Registro de Datos": the form, submitted or only drawn
RegistroDeDatos(submit, inv_sel, l) ==
    LET inv_df == get_invernaderos
    IN  /\ Before
        /\ vista' = NoVista
        /\ IF inv_df = {}
           THEN /\ msg' = "Primero crea un invernadero en el panel lateral."
                /\ ret' = "None" /\ call' = NoCall
                /\ UNCHANGED <<invernaderos, registros, seq_inv, seq_reg, live>>
           ELSE /\ inv_sel \in {i.nombre : i \in inv_df}
                /\ IF submit
                   THEN LET fecha_full == strftime(l.fecha)
                            inv_id_sel == values0(inv_df, inv_sel)
                        IN  /\ seq_reg < MaxReg
                            /\ add_registro(inv_id_sel, fecha_full, l.temp_max,
                                            l.temp_min, l.hum_max, l.hum_min,
                                            l.co2)
                            /\ call' = Call("add_registro", inv_id_sel, "", l)
                            /\ live' = live \cup {Handed(inv_id_sel, l)}
                            /\ msg' = "Registro guardado correctamente."
                   ELSE /\ msg' = ""
                        /\ ret' = "None" /\ call' = NoCall
                        /\ UNCHANGED <<invernaderos, registros, seq_inv,
                                       seq_reg, live>>

Next ==
    \/ \E nuevo_inv \in Textos : Anadir(nuevo_inv)
    \/ \E inv_to_edit \in Nombres, nuevo_nombre \in Textos :
          Renombrar(inv_to_edit, nuevo_nombre)
    \/ \E inv_to_edit \in Nombres : EliminarInvernadero(inv_to_edit)
    \/ \E submit \in BOOLEAN, inv_sel \in Nombres, l \in Lecturas :
          RegistroDeDatos(submit, inv_sel, l)
    \/ Visualizacion
    \/ \E p \in Press : Historico(p[1], p[2])

Spec == Init /\ [][Next]_vars

----------------------------------------------------------------------------
(* Claims checked under Spec, the page as Streamlit runs it *)

\* C1: in every state the page can reach, every row of registros has an
\* invernadero_id equal to the id of exactly one row of invernaderos.
C1_NoOrphanReading ==
    \A r \in registros :
        Cardinality({i \in invernaderos : r.invernadero_id = SqlInt(i.id)}) = 1

\* C2: after delete_invernadero(id) the greenhouse with that id is gone, no
\* reading with invernadero_id = id remains, and every other greenhouse and
\* every reading of another greenhouse is unchanged.
C2_DeleteCascades ==
    call.fn = "delete_invernadero" =>
        /\ ~ \E i \in invernaderos : i.id = call.id.v
        /\ ~ \E r \in registros : r.invernadero_id = SqlInt(call.id.v)
        /\ invernaderos = {i \in pre_inv : i.id # call.id.v}
        /\ registros = {r \in pre_reg : r.invernadero_id # SqlInt(call.id.v)}

\* C3: add_invernadero with a name already held, and rename_invernadero
\* with a name held by a different greenhouse, return False, are reported
\* as an error and leave both tables unchanged; no two greenhouses share a
\* name.
C3_DuplicateNameRejected ==
    /\ (/\ call.fn = "add_invernadero"
        /\ \E i \in pre_inv : i.nombre = call.nombre)
          => /\ ret = "False" /\ msg = "Ya existe o error."
             /\ invernaderos = pre_inv /\ registros = pre_reg
    /\ (/\ call.fn = "rename_invernadero"
        /\ \E i \in pre_inv : i.id = call.id.v
        /\ \E i \in pre_inv : i.id # call.id.v /\ i.nombre = call.nombre)
          => /\ ret = "False" /\ msg = "Error al renombrar"
             /\ invernaderos = pre_inv /\ registros = pre_reg
    /\ \A i, j \in invernaderos : i.nombre = j.nombre => i = j

\* the row get_registros shows for a reading as it was handed to
\* add_registro for the greenhouse g
Shown(l, g) ==
    [id |-> l.id, Invernadero |-> g.nombre, fecha |-> l.lectura.fecha,
     temp_max |-> l.lectura.temp_max, temp_min |-> l.lectura.temp_min,
     hum_max |-> l.lectura.hum_max, hum_min |-> l.lectura.hum_min,
     co2 |-> l.lectura.co2]

\* C4: for an existing greenhouse g, get_registros(g.id) returns exactly the
\* readings inserted with invernadero_id = g.id and not deleted since: none
\* of another greenhouse, none missing, none twice (N readings, N rows).
C4_QueryReturnsInserted ==
    \A g \in invernaderos :
        \A df \in get_registros(PyInt(g.id)) :
            LET mine == {l \in live : l.inv_id.v = g.id}
            IN  /\ Range(df) = {Shown(l, g) : l \in mine}
                /\ Len(df) = Cardinality(mine)

----------------------------------------------------------------------------
(* Under SpecDb, where the ids are Python ints, the helper functions do    *)
(* delete and reject as C2 and C3 say; C4_QueryReturnsInserted holds there *)
(* as it stands.                                                           *)

DeleteCascadesForInt ==
    (/\ call.fn = "delete_invernadero"
     /\ \E i \in pre_inv : i.id = call.id.v)
        => /\ ~ \E i \in invernaderos : i.id = call.id.v
           /\ ~ \E r \in registros : r.invernadero_id = SqlInt(call.id.v)
           /\ invernaderos = {i \in pre_inv : i.id # call.id.v}
           /\ registros = {r \in pre_reg : r.invernadero_id # SqlInt(call.id.v)}

DuplicateRejectedForInt ==
    /\ (/\ call.fn = "add_invernadero"
        /\ \E i \in pre_inv : i.nombre = call.nombre)
          => ret = "False" /\ invernaderos = pre_inv /\ registros = pre_reg
    /\ (/\ call.fn = "rename_invernadero"
        /\ \E i \in pre_inv : i.id = call.id.v
        /\ \E i \in pre_inv : i.id # call.id.v /\ i.nombre = call.nombre)
          => ret = "False" /\ invernaderos = pre_inv /\ registros = pre_reg
    /\ \A i, j \in invernaderos : i.nombre = j.nombre => i = j

----------------------------------------------------------------------------
(* Claims checked under SpecDb, the helper functions called with ints *)

\* C5: delete_registro(r), r the id of a stored reading, removes exactly
\* that reading; every other reading and the greenhouse table are unchanged.
C5_DeleteExactlyOne ==
    (/\ call.fn = "delete_registro"
     /\ \E r \in pre_reg : r.id = call.id.v)
        => /\ \E r \in pre_reg : r.id = call.id.v /\ registros = pre_reg \ {r}
           /\ Cardinality(registros) = Cardinality(pre_reg) - 1
           /\ invernaderos = pre_inv

\* a stored reading was deleted while another reading stays
C5_Witness ==
    /\ call.fn = "delete_registro"
    /\ \E r \in pre_reg : r.id = call.id.v
    /\ registros # {}
    /\ invernaderos # {}

\* C6: after add_invernadero(n) returns True for a non-empty name n not
\* present before, get_invernaderos() holds exactly one greenhouse named n
\* and every greenhouse listed before, with the same id and name.
C6_AddedIsListed ==
    (/\ call.fn = "add_invernadero" /\ ret = "True"
     /\ call.nombre # ""
     /\ ~ \E i \in pre_inv : i.nombre = call.nombre)
        => /\ Cardinality({i \in get_invernaderos : i.nombre = call.nombre}) = 1
           /\ pre_inv \subseteq get_invernaderos

\* a greenhouse was added to a table that already held one
C6_Witness ==
    /\ call.fn = "add_invernadero" /\ ret = "True"
    /\ call.nombre # ""
    /\ pre_inv # {}
    /\ \E i \in invernaderos : i.nombre = call.nombre /\ i \notin pre_inv

\* the row of registros a reading handed to add_registro is stored as
Stored(l) ==
    [id |-> l.id, invernadero_id |-> bind(l.inv_id),
     fecha |-> strftime(l.lectura.fecha),
     temp_max |-> l.lectura.temp_max, temp_min |-> l.lectura.temp_min,
     hum_max |-> l.lectura.hum_max, hum_min |-> l.lectura.hum_min,
     co2 |-> l.lectura.co2]

\* C9: a reading is never updated in place: whatever the operation, a
\* stored reading has the id and the values it was inserted with, and a
\* step changes no reading that it leaves in the table.
C9_NeverUpdated ==
    /\ \A r \in registros : \E l \in live : r = Stored(l)
    /\ \A r \in registros : \A q \in pre_reg : q.id = r.id => q = r

\* the greenhouse of a stored reading was renamed
C9_Witness ==
    /\ call.fn = "rename_invernadero" /\ ret = "True"
    /\ \E i \in invernaderos :
          /\ i.id = call.id.v
          /\ i \notin pre_inv
          /\ \E r \in registros : r.invernadero_id = SqlInt(i.id)

----------------------------------------------------------------------------
(* Claims checked under SpecVista, the report pages over stored readings *)

\* the rows of filtered_df that fall on the day of the daily row d
DayRows(d) ==
    {r \in Range(vista.filtered_df) : fecha_dia(r) = d.fecha_dia}

Sum(S, f(_)) ==
    LET RECURSIVE acc(_)
        acc(T) == IF T = {} THEN 0
                  ELSE LET x == CHOOSE y \in T : TRUE
                       IN  f(x) + acc(T \ {x})
    IN  acc(S)

OneRowPerDay ==
    /\ {d.fecha_dia : d \in Range(vista.df_grouped)}
          = {fecha_dia(r) : r \in Range(vista.filtered_df)}
    /\ Len(vista.df_grouped)
          = Cardinality({fecha_dia(r) : r \in Range(vista.filtered_df)})

\* C7 as stated: one row per calendar day, whose temp_max and temp_min are
\* the averages of the day's readings ((20, 10) and (30, 20) give 25, 15).
C7_DailyAverages ==
    vista.choice = "Visualizacion y Reportes" =>
        /\ OneRowPerDay
        /\ \A d \in Range(vista.df_grouped) :
              /\ d.temp_max * Cardinality(DayRows(d))
                    = Sum(DayRows(d), LAMBDA r : r.temp_max)
              /\ d.temp_min * Cardinality(DayRows(d))
                    = Sum(DayRows(d), LAMBDA r : r.temp_min)

\* C7 amended: one row per calendar day, whose temp_max is the highest
\* temp_max and whose temp_min is the lowest temp_min of the day's readings
\* ((20, 10) and (30, 20) give 30, 10).
C7_DailyExtremes ==
    vista.choice = "Visualizacion y Reportes" =>
        /\ OneRowPerDay
        /\ \A d \in Range(vista.df_grouped) :
              /\ \E r \in DayRows(d) : r.temp_max = d.temp_max
              /\ \A r \in DayRows(d) : r.temp_max <= d.temp_max
              /\ \E r \in DayRows(d) : r.temp_min = d.temp_min
              /\ \A r \in DayRows(d) : r.temp_min >= d.temp_min

\* the readings (20, 10) and (30, 20) of one day are shown as one daily row
C7_Witness ==
    /\ vista.choice = "Visualizacion y Reportes"
    /\ \E d \in Range(vista.df_grouped) :
          /\ {<<r.temp_max, r.temp_min>> : r \in DayRows(d)}
                = {<<20, 10>>, <<30, 20>>}
          /\ d.temp_max = 30 /\ d.temp_min = 10

\* C8: "Eliminar Registro" with an id that no reading returned by
\* get_registros() has deletes nothing: an error is shown and both tables
\* are unchanged; a delete is issued only for an id of that set.
C8_DeleteOnlyKnownId ==
    LET known == {r.id : r \in Range(vista.all_regs)}
    IN  /\ (/\ vista.choice = "Historico"
            /\ vista.reg_id_to_del # 0
            /\ vista.reg_id_to_del \notin known)
              => /\ msg = "ID no encontrado."
                 /\ call.fn = "none"
                 /\ invernaderos = pre_inv /\ registros = pre_reg
        /\ (vista.choice = "Historico" /\ call.fn = "delete_registro")
              => call.id.v \in known

\* the button was pressed with an id that is not listed
C8_Witness ==
    /\ vista.choice = "Historico"
    /\ vista.reg_id_to_del # 0
    /\ vista.reg_id_to_del \notin {r.id : r \in Range(vista.all_regs)}
    /\ msg = "ID no encontrado."

\* a row passes the three selections
Passes(r) ==
    /\ vista.year_sel # "Ver todo" => str(r.fecha.year) = vista.year_sel
    /\ vista.month_sel # "Ver todo"
          => months_names[r.fecha.month] = vista.month_sel
    /\ vista.inv_filter_sel # "Todos" => r.Invernadero = vista.inv_filter_sel

\* C10: the filtered listing is exactly the readings of get_registros()
\* that satisfy every selected filter at once; "Ver todo" / "Todos"
\* excludes nothing, so with the three defaults it is the full listing.
C10_FilteredListing ==
    vista.choice \in {"Visualizacion y Reportes", "Historico"} =>
        /\ Range(vista.filtered_df) = {r \in Range(vista.all_regs) : Passes(r)}
        /\ Len(vista.filtered_df)
              = Cardinality({k \in DOMAIN vista.all_regs : Passes(vista.all_regs[k])})
        /\ (/\ vista.year_sel = "Ver todo" /\ vista.month_sel = "Ver todo"
            /\ vista.inv_filter_sel = "Todos")
              => vista.filtered_df = vista.all_regs

\* the three filters are set and keep some rows and drop others
C10_Witness ==
    /\ vista.choice = "Historico"
    /\ vista.year_sel # "Ver todo" /\ vista.month_sel # "Ver todo"
    /\ vista.inv_filter_sel # "Todos"
    /\ vista.filtered_df # <<>>
    /\ Len(vista.filtered_df) < Len(vista.all_regs)

====
